---------------------------- MODULE Spec2Model ----------------------------
(***************************************************************************)
(* A model of the dither command line tool: the uniform n-level quantizer  *)
(* (create_quantize_n_bits_func), the nearest-palette quantizer            *)
(* (quantize_palette), the conversion back to 8-bit channels               *)
(* (clamp_f64_to_u8), the parsing of the --color option (Mode::from_str),  *)
(* the control flow of _main and the error-diffusion engine it calls.      *)
(*                                                                         *)
(* f64 values are modelled as exact fixed-point numbers: the integer v     *)
(* stands for the real number v / Unit.  Unit is chosen so that every      *)
(* value the model computes (multiples of 256/n for n in 1..8, sixteenths  *)
(* of residuals along a scan) is represented exactly; floating-point       *)
(* rounding is not modelled.                                               *)
(***************************************************************************)
EXTENDS Integers, Sequences, FiniteSets, TLC

VARIABLES
    \* create_quantize_n_bits_func and the closure it returns
    qpc,        \* "start", "built", "failed", "called"
    depth,      \* the n handed to create_quantize_n_bits_func
    quantizer,  \* what create_quantize_n_bits_func returned
    qx,         \* the x handed to the closure
    qout,       \* the pair the closure returned
    \* quantize_palette and the closure it returns
    ppc,        \* "start", "built", "called"
    palette,    \* the palette the closure captured
    pcolor,     \* the color handed to the closure
    pout,       \* the pair (closest, min_err) the closure returned
    \* clamp_f64_to_u8
    cpc,        \* "start", "converted"
    cn,         \* the f64 handed to clamp_f64_to_u8
    cout,       \* the u8 it returned
    \* Mode::from_str
    spc,        \* "start", "parsed"
    token,      \* the --color token
    parsed,     \* the Result<Mode, Error> returned
    \* _main
    pc,         \* "start", "log", "load", "quantizer", "match", "save", "exit"
    opts,       \* the Opt of the run
    env,        \* what the file system does: the input resolves, loads, the output saves
    quantize,   \* the quantizer _main built
    result,     \* the Result<()> _main returned
    dithered,   \* the quantizer the image was dithered with, "none" before
    saved,      \* whether the output image was saved
    \* Ditherer::dither
    dpc,        \* "start", "scan", "done"
    dw, dh,     \* width and height of the image
    dn,         \* the bit depth of the quantizer
    image,      \* the input pixels, row by row
    acc,        \* the accumulators
    output,     \* the output pixels
    pos,        \* the next position of the scan, from 1
    seen,       \* per pixel, the accumulator values it was quantized from
    residual    \* per pixel, the residual its quantization left

qvars == <<qpc, depth, quantizer, qx, qout>>
pvars == <<ppc, palette, pcolor, pout>>
cvars == <<cpc, cn, cout>>
svars == <<spc, token, parsed>>
mvars == <<pc, opts, env, quantize, result, dithered, saved>>
dvars == <<dpc, dw, dh, dn, image, acc, output, pos, seen, residual>>

vars == <<qvars, pvars, cvars, svars, mvars, dvars>>

---------------------------------------------------------------------------
(* Bounds of the model *)

\* inputs are sampled at the multiples of 1/SubDiv
SubDiv == 4

\* the largest number of pixels of an image handed to the engine
MaxPixels == 3

---------------------------------------------------------------------------
(* Fixed-point representation of f64 *)

\* u8::MAX, the largest bit depth the command line can carry
U8Max == 255

RECURSIVE Pow(_, _)
Pow(b, e) == IF e = 0 THEN 1 ELSE b * Pow(b, e - 1)

RECURSIVE Gcd(_, _)
Gcd(a, b) == IF b = 0 THEN a ELSE Gcd(b, a % b)

Lcm(a, b) == (a * b) \div Gcd(a, b)

\* one unit of the fixed-point representation is 1/Unit: 256/n for n in 1..8,
\* 1/SubDiv and the sixteenths of a residual passed on along a scan are
\* whole numbers of units
Unit == Lcm(3 * 5 * 7 * Pow(16, MaxPixels - 1), SubDiv)

F64(k) == k * Unit

Max(a, b) == IF a > b THEN a ELSE b
Min(a, b) == IF a < b THEN a ELSE b
Abs(a) == IF a < 0 THEN -a ELSE a

\* f64::floor(x / d) and f64::ceil(x / d) for d > 0
FloorDiv(x, d) == x \div d
CeilDiv(x, d) == -((-x) \div d)

---------------------------------------------------------------------------
(* create_quantize_n_bits_func *)

\* the guard of create_quantize_n_bits_func, off by one at the upper end
BadBitDepthUpTo8(n) == n = 0 \/ n > 8

\* main.rs:130: the depths create_quantize_n_bits_func rejects
BadBitDepth(n) == n = 0 \/ n > 7

\* main.rs:129-151: the constructor's result
create_quantize_n_bits_func(n) ==
    IF BadBitDepth(n)
    THEN [tag |-> "Err", err |-> "BadBitDepth", n |-> n]
    ELSE [tag |-> "Ok", err |-> "none", n |-> n]

\* the closure with its residual taken from the clamped quantized value
QuantizeResidualOfClamped(n, x) ==
    LET step_size == F64(256) \div n
        floor == FloorDiv(x, step_size) * step_size
        floor_rem == x - floor
        ceil == CeilDiv(x, step_size) * step_size
        ceil_rem == ceil - x
    IN  IF floor_rem < ceil_rem
        THEN <<Max(floor, 0), x - Max(floor, 0)>>
        ELSE <<Min(F64(255), ceil), x - Min(F64(255), ceil)>>

\* the closure without its final clamp of the ceiling
QuantizeUnclamped(n, x) ==
    LET step_size == F64(256) \div n
        floor == FloorDiv(x, step_size) * step_size
        floor_rem == x - floor
        ceil == CeilDiv(x, step_size) * step_size
        ceil_rem == ceil - x
    IN  IF floor_rem < ceil_rem
        THEN <<Max(floor, 0), floor_rem>>
        ELSE <<ceil, -ceil_rem>>

\* the closure with the comparison of the remainders made non-strict
QuantizeFloorOnTie(n, x) ==
    LET step_size == F64(256) \div n
        floor == FloorDiv(x, step_size) * step_size
        floor_rem == x - floor
        ceil == CeilDiv(x, step_size) * step_size
        ceil_rem == ceil - x
    IN  IF floor_rem <= ceil_rem
        THEN <<Max(floor, 0), floor_rem>>
        ELSE <<Min(F64(255), ceil), -ceil_rem>>

\* main.rs:133-149: the closure, for the n it captured and its argument x
Quantize(n, x) ==
    LET step_size == F64(256) \div n
        floor == FloorDiv(x, step_size) * step_size
        floor_rem == x - floor
        ceil == CeilDiv(x, step_size) * step_size
        ceil_rem == ceil - x
    IN  IF floor_rem < ceil_rem
        THEN <<Max(floor, 0), floor_rem>>
        ELSE <<Min(F64(255), ceil), -ceil_rem>>

\* the x of the claims: the multiples of 1/SubDiv in [0, 255]
QuantizerInputs == {k * (Unit \div SubDiv) : k \in 0..(255 * SubDiv)}

NoPair == <<0, 0>>

QStart ==
    /\ qpc = "start"
    /\ depth = 0
    /\ quantizer = [tag |-> "none", err |-> "none", n |-> 0]
    /\ qx = 0
    /\ qout = NoPair

\* let quantize = create_quantize_n_bits_func(n)
Create(n) ==
    /\ qpc = "start"
    /\ depth' = n
    /\ quantizer' = create_quantize_n_bits_func(n)
    /\ qpc' = IF quantizer'.tag = "Ok" THEN "built" ELSE "failed"
    /\ UNCHANGED <<qx, qout>>
    /\ UNCHANGED <<pvars, cvars, svars, mvars, dvars>>

\* quantize(x)
Call(x) ==
    /\ qpc \in {"built", "called"}
    /\ qx' = x
    /\ qout' = Quantize(quantizer.n, x)
    /\ qpc' = "called"
    /\ UNCHANGED <<depth, quantizer>>
    /\ UNCHANGED <<pvars, cvars, svars, mvars, dvars>>

QNext ==
    \/ qpc = "start" /\ \E n \in 0..U8Max : Create(n)
    \/ \E x \in QuantizerInputs : Call(x)

---------------------------------------------------------------------------
(* color::cga and quantize_palette *)

\* color/mod.rs:53-83: the 24-bit rgb representations of the CGA colors
cga_BLACK == <<0, 0, 0>>
cga_BLUE == <<0, 0, 170>>
cga_GREEN == <<0, 170, 0>>
cga_CYAN == <<0, 170, 170>>
cga_RED == <<170, 0, 0>>
cga_MAGENTA == <<170, 0, 170>>
cga_BROWN == <<170, 85, 0>>
cga_LIGHT_GRAY == <<170, 170, 170>>
cga_GRAY == <<85, 85, 85>>
cga_LIGHT_BLUE == <<85, 85, 255>>
cga_LIGHT_GREEN == <<85, 255, 85>>
cga_LIGHT_CYAN == <<85, 255, 255>>
cga_LIGHT_RED == <<255, 85, 85>>
cga_LIGHT_MAGENTA == <<255, 85, 255>>
cga_YELLOW == <<255, 255, 85>>
cga_WHITE == <<255, 255, 255>>

\* color/mod.rs:28-48: Mode::CGA_PALETTE
CGA_PALETTE ==
    [kind |-> "KnownPalette",
     palette |-> <<cga_BLACK, cga_BLUE, cga_GREEN, cga_CYAN, cga_RED,
                   cga_MAGENTA, cga_BROWN, cga_LIGHT_GRAY, cga_GRAY,
                   cga_LIGHT_BLUE, cga_LIGHT_GREEN, cga_LIGHT_CYAN,
                   cga_LIGHT_RED, cga_LIGHT_MAGENTA, cga_YELLOW, cga_WHITE>>,
     name |-> "CGA"]

\* RGB::<f64>::from(RGB<u8>)
RGBF64(c) == <<F64(c[1]), F64(c[2]), F64(c[3])>>

\* std::f64::INFINITY, and a finite distance
INFINITY == [inf |-> TRUE, v |-> 0]
Finite(v) == [inf |-> FALSE, v |-> v]

\* abs_err <= min_abs_err: the last of several equally near entries wins
NotAbove(abs_err, min_abs_err) == min_abs_err.inf \/ abs_err <= min_abs_err.v

\* color/mod.rs:201: abs_err < min_abs_err
Below(abs_err, min_abs_err) == min_abs_err.inf \/ abs_err < min_abs_err.v

\* color/mod.rs:200: the L1 distance of two colors
AbsErr(c0, c1) == Abs(c0[1] - c1[1]) + Abs(c0[2] - c1[2]) + Abs(c0[3] - c1[3])

\* color/mod.rs:199-206: the loop over the palette, from its i-th entry on
RECURSIVE ScanPalette(_, _, _, _)
ScanPalette(pal, c0, i, st) ==
    IF i > Len(pal) THEN st
    ELSE LET c1 == RGBF64(pal[i])
             abs_err == AbsErr(c0, c1)
         IN  IF Below(abs_err, st.min_abs_err)
             THEN ScanPalette(pal, c0, i + 1,
                      [min_err |-> <<c0[1] - c1[1], c0[2] - c1[2], c0[3] - c1[3]>>,
                       closest |-> c1,
                       min_abs_err |-> Finite(abs_err)])
             ELSE ScanPalette(pal, c0, i + 1, st)

\* color/mod.rs:193-208: the closure quantize_palette returns
QuantizePalette(pal, c0) ==
    LET st == ScanPalette(pal, c0, 1,
                  [min_err |-> <<0, 0, 0>>,
                   closest |-> <<0, 0, 0>>,
                   min_abs_err |-> INFINITY])
    IN  <<st.closest, st.min_err>>

\* the longest palette of the model
MaxPaletteLen == 3

\* the colors the palettes of the model are made of
PaletteColors == {cga_BLACK, cga_BLUE, cga_GRAY, cga_LIGHT_RED, cga_WHITE}

Palettes == UNION {[1..k -> PaletteColors] : k \in 0..MaxPaletteLen}

\* the channel values of the colors handed to the closure: accumulators may
\* leave [0, 255] and need not be integers
ChannelInputs == {-F64(20), 0, F64(85), F64(212) + Unit \div SubDiv}

ColorInputs == ChannelInputs \X ChannelInputs \X ChannelInputs

PStart ==
    /\ ppc = "start"
    /\ palette = <<>>
    /\ pcolor = <<0, 0, 0>>
    /\ pout = <<<<0, 0, 0>>, <<0, 0, 0>>>>

\* let quantize = quantize_palette(&pal)
BuildPalette(pal) ==
    /\ ppc = "start"
    /\ palette' = pal
    /\ ppc' = "built"
    /\ UNCHANGED <<pcolor, pout>>
    /\ UNCHANGED <<qvars, cvars, svars, mvars, dvars>>

\* quantize(c0)
CallPalette(c0) ==
    /\ ppc \in {"built", "called"}
    /\ pcolor' = c0
    /\ pout' = QuantizePalette(palette, c0)
    /\ ppc' = "called"
    /\ UNCHANGED palette
    /\ UNCHANGED <<qvars, cvars, svars, mvars, dvars>>

PNext ==
    \/ ppc = "start" /\ \E pal \in Palettes : BuildPalette(pal)
    \/ \E c0 \in ColorInputs : CallPalette(c0)

---------------------------------------------------------------------------
(* clamp_f64_to_u8 *)

\* the conversion rounding to the nearest integer
clamp_rounding(n) ==
    IF n > F64(255) THEN 255
    ELSE IF n < 0 THEN 0
    ELSE (n + Unit \div 2) \div Unit

\* main.rs:162-168: `n as u8` drops the fractional part of an n in [0, 255]
clamp_f64_to_u8(n) ==
    IF n > F64(255) THEN 255
    ELSE IF n < 0 THEN 0
    ELSE n \div Unit

\* the multiples of 1/SubDiv in [-2, 258]
ClampInputs == {k * (Unit \div SubDiv) : k \in (-2 * SubDiv)..(258 * SubDiv)}

CStart ==
    /\ cpc = "start"
    /\ cn = 0
    /\ cout = 0

\* clamp_f64_to_u8(n)
Clamp(n) ==
    /\ cn' = n
    /\ cout' = clamp_f64_to_u8(n)
    /\ cpc' = "converted"
    /\ UNCHANGED <<qvars, pvars, svars, mvars, dvars>>

CNext == \E n \in ClampInputs : Clamp(n)

---------------------------------------------------------------------------
(* Mode::from_str *)

\* strings are sequences of one-character strings
AsciiLower == <<"a", "b", "c", "d", "e", "f", "g", "h", "i", "j", "k", "l", "m", "n", "o", "p", "q", "r", "s", "t", "u", "v", "w", "x", "y", "z">>
AsciiUpper == <<"A", "B", "C", "D", "E", "F", "G", "H", "I", "J", "K", "L", "M", "N", "O", "P", "Q", "R", "S", "T", "U", "V", "W", "X", "Y", "Z">>

\* u8::to_ascii_uppercase
to_ascii_uppercase_char(c) ==
    IF \E i \in 1..26 : AsciiLower[i] = c
    THEN AsciiUpper[CHOOSE i \in 1..26 : AsciiLower[i] = c]
    ELSE c

\* a conversion that leaves the casing as it is
keep_case(s) == s

\* color/mod.rs:118: str::to_ascii_uppercase
to_ascii_uppercase(s) == [i \in 1..Len(s) |-> to_ascii_uppercase_char(s[i])]

\* Result<Mode, Error>
Ok(m) == [tag |-> "Ok", mode |-> m]
UnknownOption(s) == [tag |-> "Err", err |-> "UnknownOption", token |-> s]

\* color/mod.rs:12, 16, 19: the variants of Mode without a palette
SingleColor(c) == [kind |-> "SingleColor", color |-> c]
Color == [kind |-> "Color"]
BlackAndWhite == [kind |-> "BlackAndWhite"]

\* color/mod.rs:117-141: Mode::from_str
from_str(s) ==
    LET u == to_ascii_uppercase(s)
    IN  CASE u \in {<<"W", "H", "I", "T", "E">>,
                    <<"B", "L", "A", "C", "K">>,
                    <<"B", "W">>} -> Ok(BlackAndWhite)
          [] u \in {<<"C">>, <<"C", "O", "L", "O", "R">>} -> Ok(Color)
          [] u = <<"C", "G", "A">> -> Ok(CGA_PALETTE)
          [] u = <<"B", "L", "U", "E">> ->
               Ok(SingleColor(cga_BLUE))
          [] u = <<"G", "R", "E", "E", "N">> ->
               Ok(SingleColor(cga_GREEN))
          [] u = <<"C", "Y", "A", "N">> ->
               Ok(SingleColor(cga_CYAN))
          [] u = <<"R", "E", "D">> ->
               Ok(SingleColor(cga_RED))
          [] u = <<"M", "A", "G", "E", "N", "T", "A">> ->
               Ok(SingleColor(cga_MAGENTA))
          [] u = <<"B", "R", "O", "W", "N">> ->
               Ok(SingleColor(cga_BROWN))
          [] u = <<"L", "I", "G", "H", "T", "_", "G", "R", "A", "Y">> ->
               Ok(SingleColor(cga_LIGHT_GRAY))
          [] u = <<"G", "R", "A", "Y">> ->
               Ok(SingleColor(cga_GRAY))
          [] u = <<"L", "I", "G", "H", "T", "_", "B", "L", "U", "E">> ->
               Ok(SingleColor(cga_LIGHT_BLUE))
          [] u = <<"L", "I", "G", "H", "T", "_", "G", "R", "E", "E", "N">> ->
               Ok(SingleColor(cga_LIGHT_GREEN))
          [] u = <<"L", "I", "G", "H", "T", "_", "C", "Y", "A", "N">> ->
               Ok(SingleColor(cga_LIGHT_CYAN))
          [] u = <<"L", "I", "G", "H", "T", "_", "R", "E", "D">> ->
               Ok(SingleColor(cga_LIGHT_RED))
          [] u = <<"L", "I", "G", "H", "T", "_", "M", "A", "G", "E", "N", "T", "A">> ->
               Ok(SingleColor(cga_LIGHT_MAGENTA))
          [] u = <<"Y", "E", "L", "L", "O", "W">> ->
               Ok(SingleColor(cga_YELLOW))
          [] OTHER -> UnknownOption(s)

\* the tokens of the model: every casing of these words
TokenWords ==
    {<<"B", "W">>,
     <<"C">>,
     <<"C", "O", "L", "O", "R">>,
     <<"C", "G", "A">>,
     <<"W", "H", "I", "T", "E">>,
     <<"B", "L", "A", "C", "K">>,
     <<"B", "L", "U", "E">>,
     <<"G", "R", "E", "E", "N">>,
     <<"C", "Y", "A", "N">>,
     <<"R", "E", "D">>,
     <<"M", "A", "G", "E", "N", "T", "A">>,
     <<"B", "R", "O", "W", "N">>,
     <<"L", "I", "G", "H", "T", "_", "G", "R", "A", "Y">>,
     <<"G", "R", "A", "Y">>,
     <<"L", "I", "G", "H", "T", "_", "B", "L", "U", "E">>,
     <<"L", "I", "G", "H", "T", "_", "G", "R", "E", "E", "N">>,
     <<"L", "I", "G", "H", "T", "_", "C", "Y", "A", "N">>,
     <<"L", "I", "G", "H", "T", "_", "R", "E", "D">>,
     <<"L", "I", "G", "H", "T", "_", "M", "A", "G", "E", "N", "T", "A">>,
     <<"Y", "E", "L", "L", "O", "W">>,
     <<"P", "U", "R", "P", "L", "E">>,
     <<"R", "E", "D", "D">>,
     <<"C", "G">>}

\* u8::to_ascii_lowercase
to_ascii_lowercase_char(c) ==
    IF \E i \in 1..26 : AsciiUpper[i] = c
    THEN AsciiLower[CHOOSE i \in 1..26 : AsciiUpper[i] = c]
    ELSE c

\* the casings of an upper-case word w
Casings(w) ==
    {[i \in 1..Len(w) |-> IF i \in lower THEN to_ascii_lowercase_char(w[i]) ELSE w[i]] :
        lower \in SUBSET (1..Len(w))}

\* tokens no casing of which is a word of from_str
OtherTokens ==
    {<<"a", "l", "k", "s", "d", "a", "l", "k", "s", "d", "s", "j">>,
     <<>>,
     <<"l", "i", "g", "h", "t", " ", "g", "r", "a", "y">>,
     <<"L", "i", "g", "h", "t", "-", "G", "r", "a", "y">>,
     <<"0", "x", "F", "F", "0", "0", "0", "0", " ", "0", "x", "0", "0", "0", "0", "f", "f">>,
     <<"b", " ", "w">>,
     <<" ", "R", "e", "d">>}

Tokens == UNION {Casings(w) : w \in TokenWords} \cup OtherTokens

SStart ==
    /\ spc = "start"
    /\ token = <<>>
    /\ parsed = [tag |-> "none"]

\* s.parse::<Mode>()
Parse(s) ==
    /\ spc = "start"
    /\ token' = s
    /\ parsed' = from_str(s)
    /\ spc' = "parsed"
    /\ UNCHANGED <<qvars, pvars, cvars, mvars, dvars>>

SNext == \E s \in Tokens : Parse(s)

---------------------------------------------------------------------------
(* _main *)

\* main.rs:101: Mode::CustomPalette { front, back }
CustomPalette(front, back) ==
    [kind |-> "CustomPalette", front |-> front, back |-> back]

\* main.rs:61: the palette-based modes: Mode::CGA (Mode::CGA_PALETTE in
\* color/mod.rs) and Mode::CustomPalette
IsPaletteMode(mode) == mode.kind \in {"KnownPalette", "CustomPalette"}

\* the guard with the custom palettes forgotten
IncompatibleOnlyKnownPalette(mode, bit_depth) ==
    mode.kind = "KnownPalette" /\ bit_depth > 1

\* main.rs:61: color::Mode::CGA | color::Mode::CustomPalette { .. } if opts.bit_depth > 1
Incompatible(mode, bit_depth) == IsPaletteMode(mode) /\ bit_depth > 1

\* main.rs:65-110: the quantizer each arm of the match dithers with
QuantizerOfArm(mode) ==
    CASE mode.kind = "Color" -> "RGB::map_across(quantize)"
      [] mode.kind = "KnownPalette" -> "CGA::quantize"
      [] OTHER -> "quantize"

Err(e) == [tag |-> "Err", err |-> e]

\* the color modes of the model's runs
ColorModes ==
    {Color, BlackAndWhite, CGA_PALETTE, SingleColor(cga_RED),
     CustomPalette(cga_YELLOW, cga_BLUE)}

\* opts.rs:7-64: the options of a run
Opts ==
    [verbose : BOOLEAN, bit_depth : 0..U8Max, color_mode : ColorModes]

\* what the file system does during a run; an input that does not resolve
\* does not load
Envs ==
    {e \in [canonicalize_ok : BOOLEAN, load_ok : BOOLEAN, save_ok : BOOLEAN] :
        e.load_ok => e.canonicalize_ok}

MStart ==
    /\ pc = "start"
    /\ opts = [verbose |-> FALSE, bit_depth |-> 1, color_mode |-> BlackAndWhite]
    /\ env = [canonicalize_ok |-> TRUE, load_ok |-> TRUE, save_ok |-> TRUE]
    /\ quantize = [tag |-> "none", err |-> "none", n |-> 0]
    /\ result = [tag |-> "none", err |-> "none"]
    /\ dithered = "none"
    /\ saved = FALSE

\* main.rs:26-29: main reads the options and calls _main
Main(o, e) ==
    /\ pc = "start"
    /\ opts' = o
    /\ env' = e
    /\ pc' = "log"
    /\ UNCHANGED <<quantize, result, dithered, saved>>
    /\ UNCHANGED <<qvars, pvars, cvars, svars, dvars>>

\* main.rs:32-48: the verbose header canonicalizes the paths
Log ==
    /\ pc = "log"
    /\ IF opts.verbose /\ ~env.canonicalize_ok
       THEN result' = Err("Io") /\ pc' = "exit"
       ELSE result' = result /\ pc' = "load"
    /\ UNCHANGED <<opts, env, quantize, dithered, saved>>
    /\ UNCHANGED <<qvars, pvars, cvars, svars, dvars>>

\* main.rs:49-57: Img::load(&opts.input)?
Load ==
    /\ pc = "load"
    /\ IF ~env.load_ok
       THEN result' = Err("Input") /\ pc' = "exit"
       ELSE result' = result /\ pc' = "quantizer"
    /\ UNCHANGED <<opts, env, quantize, dithered, saved>>
    /\ UNCHANGED <<qvars, pvars, cvars, svars, dvars>>

\* main.rs:58: let quantize = create_quantize_n_bits_func(opts.bit_depth)?
BuildQuantizer ==
    /\ pc = "quantizer"
    /\ quantize' = create_quantize_n_bits_func(opts.bit_depth)
    /\ IF quantize'.tag = "Err"
       THEN result' = Err(quantize'.err) /\ pc' = "exit"
       ELSE result' = result /\ pc' = "match"
    /\ UNCHANGED <<opts, env, dithered, saved>>
    /\ UNCHANGED <<qvars, pvars, cvars, svars, dvars>>

\* main.rs:60-111: the match on the color mode, the dithering in its arms
Match ==
    /\ pc = "match"
    /\ IF Incompatible(opts.color_mode, opts.bit_depth)
       THEN /\ result' = Err("IncompatibleOptions")
            /\ pc' = "exit"
            /\ dithered' = dithered
       ELSE /\ dithered' = QuantizerOfArm(opts.color_mode)
            /\ result' = result
            /\ pc' = "save"
    /\ UNCHANGED <<opts, env, quantize, saved>>
    /\ UNCHANGED <<qvars, pvars, cvars, svars, dvars>>

\* main.rs:112-119: output_img.save(..)? and Ok(())
Save ==
    /\ pc = "save"
    /\ IF ~env.save_ok
       THEN result' = Err("Output") /\ saved' = saved
       ELSE result' = [tag |-> "Ok", err |-> "none"] /\ saved' = TRUE
    /\ pc' = "exit"
    /\ UNCHANGED <<opts, env, quantize, dithered>>
    /\ UNCHANGED <<qvars, pvars, cvars, svars, dvars>>

MNext ==
    \/ pc = "start" /\ \E o \in Opts, e \in Envs : Main(o, e)
    \/ Log
    \/ Load
    \/ BuildQuantizer
    \/ Match
    \/ Save

---------------------------------------------------------------------------
(* Ditherer::dither, the error-diffusion engine.  The dither module is not  *)
(* among the sources: the engine follows section 4.4 of the design, with   *)
(* the Floyd-Steinberg kernel of the literature (divisor 16).              *)

\* the Floyd-Steinberg kernel: (dx, dy, numerator), over the divisor 16
FLOYD_STEINBERG == <<<<1, 0, 7>>, <<-1, 1, 3>>, <<0, 1, 5>>, <<1, 1, 1>>>>
FloydDivisor == 16

\* row-major position of column x, row y (both from 0), from 1
PosOf(x, y, w) == y * w + x + 1

\* weight * residual of one kernel entry
Weighted(entry, r) == (r \div FloydDivisor) * entry[3]

\* the accumulators after the residual r of the pixel at p was diffused:
\* a contribution to a neighbor outside the grid is dropped
Diffuse(a, p, r, w, h) ==
    LET x == (p - 1) % w
        y == (p - 1) \div w
        HitBy(q) ==
            {i \in 1..Len(FLOYD_STEINBERG) :
                /\ x + FLOYD_STEINBERG[i][1] \in 0..(w - 1)
                /\ y + FLOYD_STEINBERG[i][2] \in 0..(h - 1)
                /\ PosOf(x + FLOYD_STEINBERG[i][1], y + FLOYD_STEINBERG[i][2], w) = q}
        RECURSIVE Sum(_)
        Sum(S) == IF S = {} THEN 0
                  ELSE LET i == CHOOSE i \in S : TRUE
                       IN  Weighted(FLOYD_STEINBERG[i], r) + Sum(S \ {i})
    IN  [q \in 1..Len(a) |-> a[q] + Sum(HitBy(q))]

\* the pixel values of the model's images
PixelSamples == {0, F64(10), F64(127), F64(128), F64(250), F64(255)}

\* the shapes of the model's images
Shapes == {s \in (1..MaxPixels) \X (1..MaxPixels) : s[1] * s[2] <= MaxPixels}

DStart ==
    /\ dpc = "start"
    /\ dw = 0
    /\ dh = 0
    /\ dn = 1
    /\ image = <<>>
    /\ acc = <<>>
    /\ output = <<>>
    /\ pos = 1
    /\ seen = <<>>
    /\ residual = <<>>

\* opts.ditherer.dither(bw_img, quantize): the accumulators start as the image
Dither(w, h, img, n) ==
    /\ dpc = "start"
    /\ dw' = w
    /\ dh' = h
    /\ dn' = n
    /\ image' = img
    /\ acc' = img
    /\ output' = [p \in 1..(w * h) |-> 0]
    /\ pos' = 1
    /\ seen' = [p \in 1..(w * h) |-> <<>>]
    /\ residual' = [p \in 1..(w * h) |-> 0]
    /\ dpc' = "scan"
    /\ UNCHANGED <<qvars, pvars, cvars, svars, mvars>>

\* one pixel of the scan: quantize its accumulator, write the quantized
\* value, diffuse the residual, advance
ScanPixel ==
    /\ dpc = "scan"
    /\ pos <= dw * dh
    /\ LET qr == Quantize(dn, acc[pos])
       IN  /\ output' = [output EXCEPT ![pos] = qr[1]]
           /\ residual' = [residual EXCEPT ![pos] = qr[2]]
           /\ seen' = [seen EXCEPT ![pos] = Append(@, acc[pos])]
           /\ acc' = Diffuse(acc, pos, qr[2], dw, dh)
    /\ pos' = pos + 1
    /\ UNCHANGED <<dpc, dw, dh, dn, image>>
    /\ UNCHANGED <<qvars, pvars, cvars, svars, mvars>>

\* the scan is over: the output image is returned
Finish ==
    /\ dpc = "scan"
    /\ pos > dw * dh
    /\ dpc' = "done"
    /\ UNCHANGED <<dw, dh, dn, image, acc, output, pos, seen, residual>>
    /\ UNCHANGED <<qvars, pvars, cvars, svars, mvars>>

DNext ==
    \/ dpc = "start" /\ \E s \in Shapes, n \in 1..7 :
           \E img \in [1..(s[1] * s[2]) -> PixelSamples] : Dither(s[1], s[2], img, n)
    \/ ScanPixel
    \/ Finish

---------------------------------------------------------------------------
(* Specifications *)

Init == QStart /\ PStart /\ CStart /\ SStart /\ MStart /\ DStart

\* the uniform quantizer: built once, called any number of times
SpecQuantize == Init /\ [][QNext]_vars

\* the palette quantizer: built once, called any number of times
SpecPalette == Init /\ [][PNext]_vars

\* the conversion to u8, applied any number of times
SpecClamp == Init /\ [][CNext]_vars

\* the parsing of the --color token
SpecParse == Init /\ [][SNext]_vars

\* one run of the program
Spec == Init /\ [][MNext]_vars

\* one call of Ditherer::dither
SpecDither == Init /\ [][DNext]_vars

---------------------------------------------------------------------------
(* The uniform quantizer's claims, checked under SpecQuantize *)

\* main.rs:125: the 1-bit quantizer the documentation compares with
quantize_1_bit(v) == IF v > 127 THEN <<255, 255 - v>> ELSE <<0, v>>

\* the multiple of the step above x, before the final clamp
UnclampedCeiling(n, x) ==
    CeilDiv(x, F64(256) \div n) * (F64(256) \div n)

\* the closure returns its ceiling, and the ceiling is above 255
CeilingClamped(n, x) ==
    LET step_size == F64(256) \div n
        floor_rem == x - FloorDiv(x, step_size) * step_size
        ceil_rem == UnclampedCeiling(n, x) - x
    IN  ~(floor_rem < ceil_rem) /\ UnclampedCeiling(n, x) > F64(255)

\* C1: for every x in [0,255] and every n in 1..=7 the quantized value the
\* closure returns lies in [0,255].
C1_QuantizedInRange ==
    qpc = "called" => (qout[1] >= 0 /\ qout[1] <= F64(255))

\* a call whose ceiling, 256, was clamped to 255
C1_Witness ==
    /\ qpc = "called" /\ depth = 1 /\ qx = F64(200)
    /\ qout[1] = F64(255)

CalledWithInteger(v) == qpc = "called" /\ depth = 1 /\ qx = F64(v)

---------------------------------------------------------------------------
(* The palette quantizer's claim, checked under SpecPalette *)

\* the L1 distance of the input color to the i-th palette entry
Distance(i) == AbsErr(pcolor, RGBF64(palette[i]))

\* the first entry of the palette at minimal distance from the input color
FirstNearest ==
    CHOOSE i \in 1..Len(palette) :
        /\ \A j \in 1..Len(palette) : Distance(i) <= Distance(j)
        /\ \A j \in 1..(i - 1) : Distance(j) > Distance(i)

\* C5: for a non-empty palette the closure returns the palette member at
\* minimal L1 distance from the input, the first in palette order among
\* several, with the per-channel residual input - match.
C5_FirstNearestMember ==
    (ppc = "called" /\ Len(palette) > 0) =>
        /\ \E i \in 1..Len(palette) : pout[1] = RGBF64(palette[i])
        /\ \A j \in 1..Len(palette) :
               AbsErr(pcolor, pout[1]) <= Distance(j)
        /\ pout[1] = RGBF64(palette[FirstNearest])
        /\ pout[2] = <<pcolor[1] - pout[1][1],
                       pcolor[2] - pout[1][2],
                       pcolor[3] - pout[1][3]>>

\* (0, 0, 85) is as far from blue as from black: blue, the first, is returned
C5_Witness ==
    /\ ppc = "called"
    /\ palette = <<cga_WHITE, cga_BLUE, cga_BLACK>>
    /\ pcolor = <<0, 0, F64(85)>>
    /\ Distance(2) = Distance(3)
    /\ pout = <<RGBF64(cga_BLUE), <<0, 0, -F64(85)>>>>

---------------------------------------------------------------------------
(* The conversion's claim, checked under SpecClamp *)

\* C8, as claimed: the conversion clamps into [0,255] and rounds to the
\* nearest integer: 0 below 0, 255 above 255, otherwise an integer at most
\* 1/2 away from v.
C8_RoundsToNearest ==
    cpc = "converted" =>
        IF cn < 0 THEN cout = 0
        ELSE IF cn > F64(255) THEN cout = 255
        ELSE 2 * Abs(F64(cout) - cn) <= Unit

\* C8, amended: 0 below 0, 255 above 255, otherwise v with its fractional
\* part dropped: the largest integer not above v.
C8_Truncates ==
    cpc = "converted" =>
        IF cn < 0 THEN cout = 0
        ELSE IF cn > F64(255) THEN cout = 255
        ELSE cout \in 0..255 /\ F64(cout) <= cn /\ cn < F64(cout + 1)

\* the largest sampled value below 255 converts to 254
C8_Witness ==
    /\ cpc = "converted"
    /\ cn = F64(255) - Unit \div SubDiv
    /\ cout = 254

---------------------------------------------------------------------------
(* The parser's claim, checked under SpecParse *)

\* color/mod.rs:53-83: the names of the constants of color::cga
CgaColorNames ==
    <<<<"B", "L", "A", "C", "K">>,
      <<"B", "L", "U", "E">>,
      <<"G", "R", "E", "E", "N">>,
      <<"C", "Y", "A", "N">>,
      <<"R", "E", "D">>,
      <<"M", "A", "G", "E", "N", "T", "A">>,
      <<"B", "R", "O", "W", "N">>,
      <<"L", "I", "G", "H", "T", "_", "G", "R", "A", "Y">>,
      <<"G", "R", "A", "Y">>,
      <<"L", "I", "G", "H", "T", "_", "B", "L", "U", "E">>,
      <<"L", "I", "G", "H", "T", "_", "G", "R", "E", "E", "N">>,
      <<"L", "I", "G", "H", "T", "_", "C", "Y", "A", "N">>,
      <<"L", "I", "G", "H", "T", "_", "R", "E", "D">>,
      <<"L", "I", "G", "H", "T", "_", "M", "A", "G", "E", "N", "T", "A">>,
      <<"Y", "E", "L", "L", "O", "W">>,
      <<"W", "H", "I", "T", "E">>>>

CgaColors ==
    <<cga_BLACK,
      cga_BLUE,
      cga_GREEN,
      cga_CYAN,
      cga_RED,
      cga_MAGENTA,
      cga_BROWN,
      cga_LIGHT_GRAY,
      cga_GRAY,
      cga_LIGHT_BLUE,
      cga_LIGHT_GREEN,
      cga_LIGHT_CYAN,
      cga_LIGHT_RED,
      cga_LIGHT_MAGENTA,
      cga_YELLOW,
      cga_WHITE>>

\* the token is a casing of the upper-case word w
IsCasingOf(s, w) ==
    /\ Len(s) = Len(w)
    /\ \A i \in 1..Len(w) : s[i] \in {w[i], to_ascii_lowercase_char(w[i])}

\* the token is a casing of one of the words
IsCasingOfAny(s, words) == \E w \in words : IsCasingOf(s, w)

ModeWords == {<<"B", "W">>, <<"C">>, <<"C", "O", "L", "O", "R">>, <<"C", "G", "A">>}

\* what the claim says of bw, c, color, cga and of unrecognized tokens
ParsesModeWords ==
    /\ IsCasingOf(token, <<"B", "W">>) => parsed = Ok(BlackAndWhite)
    /\ IsCasingOfAny(token, {<<"C">>, <<"C", "O", "L", "O", "R">>}) => parsed = Ok(Color)
    /\ IsCasingOf(token, <<"C", "G", "A">>) => parsed = Ok(CGA_PALETTE)
    /\ ~IsCasingOfAny(token, ModeWords \cup {CgaColorNames[i] : i \in 1..16})
           => parsed = UnknownOption(token)

---------------------------------------------------------------------------
(* The claim on _main, checked under Spec *)

\* C3, as claimed: whenever the color mode is palette-based and the bit depth
\* is above 1, the run fails with IncompatibleOptions and neither dithers nor
\* saves.  Stated of the runs whose input resolves and loads, where no I/O
\* error can come first.
C3_IncompatibleOptions ==
    (/\ pc # "start" /\ env.canonicalize_ok /\ env.load_ok
     /\ IsPaletteMode(opts.color_mode) /\ opts.bit_depth > 1) =>
        /\ dithered = "none"
        /\ ~saved
        /\ pc = "exit" => result = Err("IncompatibleOptions")

\* C3, amended: such a run fails and neither dithers nor saves; it fails with
\* IncompatibleOptions when the input was read and the depth is in 2..=7,
\* with BadBitDepth when the input was read and the depth is above 7, and
\* with an I/O error when reading the input failed.
C3_FailsBeforeDithering ==
    (pc # "start" /\ IsPaletteMode(opts.color_mode) /\ opts.bit_depth > 1) =>
        /\ dithered = "none"
        /\ ~saved
        /\ pc \in {"log", "load", "quantizer", "match", "exit"}
        /\ pc = "exit" =>
            IF opts.verbose /\ ~env.canonicalize_ok THEN result = Err("Io")
            ELSE IF ~env.load_ok THEN result = Err("Input")
            ELSE IF opts.bit_depth > 7 THEN result = Err("BadBitDepth")
            ELSE result = Err("IncompatibleOptions")

\* the 16-color palette at depth 2 fails with IncompatibleOptions
C3_Witness ==
    /\ pc = "exit"
    /\ opts.color_mode = CGA_PALETTE
    /\ opts.bit_depth = 2
    /\ result = Err("IncompatibleOptions")
    /\ dithered = "none" /\ ~saved

---------------------------------------------------------------------------
(* The claim on the engine, checked under SpecDither *)

\* 7/16 of the residual the quantizer leaves for the value v
SevenSixteenths(v) == (7 * Quantize(dn, v)[2]) \div 16

\* C10: in a one-row image every pixel the scan has passed was quantized
\* exactly once, from the accumulator value that is its original value plus
\* 7/16 of the residual of its left neighbour, and once the scan is over no
\* pixel is left out; the image [10, 250] at depth 1 has the accumulator
\* 254.375 at its second pixel and the output [0, 255].
C10_OneRowFloydSteinberg ==
    (dpc # "start" /\ dh = 1) =>
        /\ \A p \in 1..dw :
               IF p < pos
               THEN /\ Len(seen[p]) = 1
                    /\ seen[p][1] = image[p] +
                           (IF p = 1 THEN 0 ELSE SevenSixteenths(seen[p - 1][1]))
                    /\ output[p] = Quantize(dn, seen[p][1])[1]
               ELSE Len(seen[p]) = 0
        /\ dpc = "done" => pos = dw + 1
        /\ (dpc = "done" /\ image = <<F64(10), F64(250)>> /\ dn = 1) =>
               /\ seen[2] = <<F64(254) + (3 * Unit) \div 8>>
               /\ output = <<0, F64(255)>>

\* the 2x1 image [10, 250] at depth 1, dithered
C10_Witness ==
    /\ dpc = "done"
    /\ dw = 2 /\ dh = 1 /\ dn = 1
    /\ image = <<F64(10), F64(250)>>
    /\ residual[1] = F64(10)
    /\ output = <<0, F64(255)>>

\* C11: for every input grid with values in [0,255], every depth in 1..=7
\* and every pixel, the value the engine writes to its output grid with the
\* uniform quantizer lies in [0,255], whatever the accumulator it was
\* quantized from.
C11_OutputInRange ==
    dpc # "start" =>
        \A p \in 1..(dw * dh) :
            p < pos => (output[p] >= 0 /\ output[p] <= F64(255))

===========================================================================
